---- MODULE Spec2Model ----
(***************************************************************************)
(* A model of three pieces of the repository:                              *)
(*   - QBox, the integer rectangle value type (corelib/tools/qbox.h,       *)
(*     qbox.cpp): accessors, edge setters, contains, intersects, span,     *)
(*     margin arithmetic and QDataStream streaming;                        *)
(*   - QPainterStateGuard (gui/painting/qpainterstateguard.h);             *)
(*   - the Java test item model behind the native proxy, as exercised by   *)
(*     tst_androiditemmodel.cpp.                                           *)
(***************************************************************************)
EXTENDS Integers, Sequences, FiniteSets

VARIABLES
    box,        \* the QBox object under test: [xp, yp, w, h]
    prev,       \* the value of box before the last operation
    op,         \* name of the last QBox operation
    ival,       \* int argument of the last operation
    pt1, pt2,   \* QPoint arguments of the last operation
    other,      \* QBox argument of the last operation
    margins,    \* QMargins argument of the last operation
    retBool,    \* bool returned by the last operation
    retInt,     \* int returned by the last operation
    retBox,     \* QBox returned by the last operation
    stream,     \* integers in flight in the QDataStream
    version,    \* QDataStream::version()
    gPhase,     \* lifetime of the QPainterStateGuard
    gInitial,   \* InitialState the guard was constructed with
    m_level,    \* QPainterStateGuard::m_level
    pSaves,     \* QPainter::save() calls received by the painter
    pRestores,  \* QPainter::restore() calls received by the painter
    gSaves,     \* guard.save() calls made by the guard's user
    gRestores,  \* guard.restore() calls made by the guard's user
    m_rows,     \* rows of the Java test model
    m_cols,     \* columns of the Java test model
    isList,     \* the Java model is the list model
    mOp,        \* name of the last item-model operation
    mRowsBefore,\* rowCount() before the last item-model operation
    mColsBefore,\* columnCount() before the last item-model operation
    mRet        \* bool returned by the last item-model operation

boxVars   == <<box, prev, op, ival, pt1, pt2, other, margins, retBool, retInt,
               retBox, stream, version>>
guardVars == <<gPhase, gInitial, m_level, pSaves, pRestores, gSaves, gRestores>>
modelVars == <<m_rows, m_cols, isList, mOp, mRowsBefore, mColsBefore, mRet>>
vars      == <<boxVars, guardVars, modelVars>>

(***************************************************************************)
(* Bounds of the model.                                                    *)
(***************************************************************************)
MaxCoord  == 1      \* positions range over -MaxCoord..MaxCoord
MaxSize   == 2      \* widths and heights range over -MaxSize..MaxSize
MaxMargin == 1      \* margins range over 0..MaxMargin

Coords  == (-MaxCoord)..MaxCoord
Sizes   == (-MaxSize)..MaxSize
\* every point an axis-normalised box of the model can touch, and one beyond
Reach   == (-(MaxCoord + MaxSize + 1))..(MaxCoord + MaxSize + 1)

(***************************************************************************)
(* QPoint, QSize, QMargins, QBox values.                                   *)
(***************************************************************************)
QPoint(px, py) == [x |-> px, y |-> py]
QSize(sw, sh)  == [width |-> sw, height |-> sh]
QMargins(ml, mt, mr, mb) == [left |-> ml, top |-> mt, right |-> mr, bottom |-> mb]

qMin(a, b) == IF b < a THEN b ELSE a
qMax(a, b) == IF a < b THEN b ELSE a

\* QBox(int left, int top, int width, int height)
QBox(aleft, atop, awidth, aheight) ==
    [xp |-> aleft, yp |-> atop, w |-> awidth, h |-> aheight]

\* QBox(const QPoint &topleft, const QPoint &bottomright)
QBoxPP(atopLeft, abottomRight) ==
    [xp |-> atopLeft.x, yp |-> atopLeft.y,
     w |-> abottomRight.x - atopLeft.x,
     h |-> abottomRight.y - atopLeft.y]

\* QBox(const QPoint &topleft, const QSize &size)
QBoxPS(atopLeft, asize) ==
    [xp |-> atopLeft.x, yp |-> atopLeft.y, w |-> asize.width, h |-> asize.height]

\* QBox()
QBoxDefault == [xp |-> 0, yp |-> 0, w |-> 0, h |-> 0]

Points      == {QPoint(px, py) : px \in Reach, py \in Reach}
SpanPoints  == {QPoint(px, py) : px \in Coords, py \in Coords}
Boxes       == {QBox(l, t, bw, bh) : l \in Coords, t \in Coords, bw \in Sizes, bh \in Sizes}
\* rectangle arguments of the calls that change a box: what such a call does
\* depends on where the argument lies relative to the box, and the box takes
\* every position, so the argument's corner stays at non-negative positions
Operands    == {b \in Boxes : b.xp >= 0 /\ b.yp >= 0}
MarginsSet  == {QMargins(ml, mt, mr, mb) :
                   ml \in 0..MaxMargin, mt \in 0..MaxMargin,
                   mr \in 0..MaxMargin, mb \in 0..MaxMargin}

(***************************************************************************)
(* QBox accessors (qbox.h).                                                *)
(***************************************************************************)
isNull(b)  == b.w = 0 /\ b.h = 0
isEmpty(b) == b.w <= 0 \/ b.h <= 0
isValid(b) == b.w > 0 /\ b.h > 0

left(b)   == b.xp
top(b)    == b.yp
right(b)  == b.xp + b.w
bottom(b) == b.yp + b.w     \* the source adds w, not h
x(b)      == b.xp
y(b)      == b.yp
width(b)  == b.w
height(b) == b.h

\* friend operator==
operatorEq(r1, r2) == r1.xp = r2.xp /\ r1.w = r2.w /\ r1.yp = r2.yp /\ r1.h = r2.h

(***************************************************************************)
(* QBox setters (qbox.h).                                                  *)
(***************************************************************************)
setLeft(b, pos) ==
    LET diff == pos - b.xp
    IN  [b EXCEPT !.xp = b.xp + diff, !.w = b.w - diff]

setTop(b, pos) ==
    LET diff == pos - b.yp
    IN  [b EXCEPT !.yp = b.yp + diff, !.h = b.h - diff]

setX(b, ax) == [b EXCEPT !.xp = ax]

setY(b, ay) == [b EXCEPT !.yp = ay]

setCoords(b, xp1, yp1, xp2, yp2) ==
    [xp |-> xp1, yp |-> yp1, w |-> xp2 - xp1, h |-> yp2 - yp1]

setRight(b, pos) == [b EXCEPT !.w = pos - b.xp]

setBottom(b, pos) == [b EXCEPT !.h = pos - b.yp]

setTopLeft(b, p) == setLeft(setTop(b, p.y), p.x)

setBottomRight(b, p) == setRight(setBottom(b, p.y), p.x)

setTopRight(b, p) == setRight(setTop(b, p.y), p.x)

setBottomLeft(b, p) == setLeft(setBottom(b, p.y), p.x)

moveLeft(b, pos) == [b EXCEPT !.xp = pos]

moveTop(b, pos) == [b EXCEPT !.yp = pos]

moveRight(b, pos) == [b EXCEPT !.xp = pos - b.w]

moveBottom(b, pos) == [b EXCEPT !.yp = pos - b.h]

moveTopLeft(b, p) == moveTop(moveLeft(b, p.x), p.y)

moveBottomRight(b, p) == moveBottom(moveRight(b, p.x), p.y)

moveTopRight(b, p) == moveTop(moveRight(b, p.x), p.y)

moveBottomLeft(b, p) == moveBottom(moveLeft(b, p.x), p.y)

\* int / 2 in C++: the quotient is truncated towards zero
half(v) == IF v >= 0 THEN v \div 2 ELSE -((-v) \div 2)

moveCenter(b, p) == [b EXCEPT !.xp = p.x - half(b.w), !.yp = p.y - half(b.h)]

\* translate(int dx, int dy)
translateXY(b, dx, dy) == [b EXCEPT !.xp = b.xp + dx, !.yp = b.yp + dy]

\* translate(const QPoint &p)
translateP(b, p) == [b EXCEPT !.xp = b.xp + p.x, !.yp = b.yp + p.y]

\* moveTo(int x, int y)
moveToXY(b, ax, ay) == [b EXCEPT !.xp = ax, !.yp = ay]

\* moveTo(const QPoint &p)
moveToP(b, p) == [b EXCEPT !.xp = p.x, !.yp = p.y]

setRect(b, ax, ay, aw, ah) == [xp |-> ax, yp |-> ay, w |-> aw, h |-> ah]

adjust(b, dx1, dy1, dx2, dy2) ==
    [xp |-> b.xp + dx1, yp |-> b.yp + dy1,
     w |-> b.w + dx2 - dx1, h |-> b.h + dy2 - dy1]

setWidth(b, aw) == [b EXCEPT !.w = aw]

setHeight(b, ah) == [b EXCEPT !.h = ah]

setSize(b, sz) == [b EXCEPT !.w = sz.width, !.h = sz.height]

(***************************************************************************)
(* QBox::contains(const QPoint &) (qbox.cpp).                              *)
(***************************************************************************)
containsStrictRight(b, p) ==
    IF isNull(b) THEN FALSE
    ELSE LET l == IF b.w < 0 THEN b.xp + b.w ELSE b.xp
             r == IF b.w < 0 THEN b.xp ELSE b.xp + b.w
             t == IF b.h < 0 THEN b.yp + b.h ELSE b.yp
             bt == IF b.h < 0 THEN b.yp ELSE b.yp + b.h
         IN  IF p.x < l \/ p.x > r THEN FALSE
             ELSE IF p.y < t \/ p.y >= bt THEN FALSE
             ELSE TRUE

contains(b, p) ==
    IF isNull(b) THEN FALSE
    ELSE LET l == IF b.w < 0 THEN b.xp + b.w ELSE b.xp
             r == IF b.w < 0 THEN b.xp ELSE b.xp + b.w
             t == IF b.h < 0 THEN b.yp + b.h ELSE b.yp
             bt == IF b.h < 0 THEN b.yp ELSE b.yp + b.h
         IN  IF p.x < l \/ p.x >= r THEN FALSE
             ELSE IF p.y < t \/ p.y >= bt THEN FALSE
             ELSE TRUE

(***************************************************************************)
(* QBox::intersects(const QBox &) (qbox.cpp).                              *)
(***************************************************************************)
intersects(b, r) ==
    IF isNull(b) \/ isNull(r) THEN FALSE
    ELSE LET l1 == IF b.w < 0 THEN b.xp + b.w ELSE b.xp
             r1 == IF b.w < 0 THEN b.xp ELSE b.xp + b.w
             l2 == IF r.w < 0 THEN r.xp + r.w ELSE r.xp
             r2 == IF r.w < 0 THEN r.xp ELSE r.xp + r.w
             t1 == IF b.h < 0 THEN b.yp + b.h ELSE b.yp
             b1 == IF b.h < 0 THEN b.yp ELSE b.yp + b.h
             t2 == IF r.h < 0 THEN r.yp + r.h ELSE r.yp
             b2 == IF r.h < 0 THEN r.yp ELSE r.yp + r.h
         IN  IF l1 >= r2 \/ l2 >= r1 THEN FALSE
             ELSE IF t1 >= b2 \/ t2 >= b1 THEN FALSE
             ELSE TRUE

(***************************************************************************)
(* Margins and span (qbox.h).                                              *)
(***************************************************************************)
\* operator+(const QBox &, const QMargins &)
operatorPlus(rectangle, m) ==
    QBoxPP(QPoint(left(rectangle) - m.left, top(rectangle) - m.top),
           QPoint(right(rectangle) + m.right, bottom(rectangle) + m.bottom))

\* operator+(const QMargins &, const QBox &)
operatorPlusMR(m, rectangle) ==
    QBoxPP(QPoint(left(rectangle) - m.left, top(rectangle) - m.top),
           QPoint(right(rectangle) + m.right, bottom(rectangle) + m.bottom))

\* operator-(const QBox &, const QMargins &)
operatorMinus(lhs, rhs) ==
    QBoxPP(QPoint(left(lhs) + rhs.left, top(lhs) + rhs.top),
           QPoint(right(lhs) - rhs.right, bottom(lhs) - rhs.bottom))

marginsAdded(b, m) ==
    QBoxPS(QPoint(b.xp - m.left, b.yp - m.top),
           QSize(b.w + m.left + m.right, b.h + m.top + m.bottom))

marginsRemoved(b, m) ==
    QBoxPS(QPoint(b.xp + m.left, b.yp + m.top),
           QSize(b.w - m.left - m.right, b.h - m.top - m.bottom))

span(p1, p2) ==
    QBoxPP(QPoint(qMin(p1.x, p2.x), qMin(p1.y, p2.y)),
           QPoint(qMax(p1.x, p2.x), qMax(p1.y, p2.y)))

\* QBox::operator|(const QBox &) (qbox.cpp)
operatorOr(b, r) ==
    IF isNull(b) THEN r
    ELSE IF isNull(r) THEN b
    ELSE LET left0   == IF b.w < 0 THEN b.xp + b.w ELSE b.xp
             right0  == IF b.w < 0 THEN b.xp ELSE b.xp + b.w
             lft     == IF r.w < 0 THEN qMin(left0, r.xp + r.w) ELSE qMin(left0, r.xp)
             rgt     == IF r.w < 0 THEN qMax(right0, r.xp) ELSE qMax(right0, r.xp + r.w)
             top0    == IF b.h < 0 THEN b.yp + b.h ELSE b.yp
             bottom0 == IF b.h < 0 THEN b.yp ELSE b.yp + b.h
             tp      == IF r.h < 0 THEN qMin(top0, r.yp + r.h) ELSE qMin(top0, r.yp)
             btm     == IF r.h < 0 THEN qMax(bottom0, r.yp) ELSE qMax(bottom0, r.yp + r.h)
         IN  QBox(lft, tp, rgt - lft, btm - tp)

\* QBox::operator&(const QBox &) (qbox.cpp)
operatorAnd(b, r) ==
    IF isNull(b) \/ isNull(r) THEN QBoxDefault
    ELSE LET l1 == IF b.w < 0 THEN b.xp + b.w ELSE b.xp
             r1 == IF b.w < 0 THEN b.xp ELSE b.xp + b.w
             l2 == IF r.w < 0 THEN r.xp + r.w ELSE r.xp
             r2 == IF r.w < 0 THEN r.xp ELSE r.xp + r.w
             t1 == IF b.h < 0 THEN b.yp + b.h ELSE b.yp
             b1 == IF b.h < 0 THEN b.yp ELSE b.yp + b.h
             t2 == IF r.h < 0 THEN r.yp + r.h ELSE r.yp
             b2 == IF r.h < 0 THEN r.yp ELSE r.yp + r.h
         IN  IF l1 >= r2 \/ l2 >= r1 THEN QBoxDefault
             ELSE IF t1 >= b2 \/ t2 >= b1 THEN QBoxDefault
             ELSE QBox(qMax(l1, l2), qMax(t1, t2),
                       qMin(r1, r2) - qMax(l1, l2), qMin(b1, b2) - qMax(t1, t2))

\* operator|=, operator&=, operator+=, operator-=
operatorOrEq(b, r) == operatorOr(b, r)
operatorAndEq(b, r) == operatorAnd(b, r)
operatorPlusEq(b, m) == marginsAdded(b, m)
operatorMinusEq(b, m) == marginsRemoved(b, m)

(***************************************************************************)
(* QDataStream: what operator<< puts in flight and operator>> takes out.   *)
(***************************************************************************)
Qt_1_0 == 1

Versions == Qt_1_0..(Qt_1_0 + 2)

\* (qint16) of an int keeps the low 16 bits, read as two's complement
toQint16(v) == ((v + 2^15) % 2^16) - 2^15
\* (qint32) of an int: int is the 32-bit type qint32 names, every bit is kept
toQint32(v) == v

\* operator<<(QDataStream &, const QBox &)
streamOut(ver, r) ==
    IF ver = Qt_1_0
    THEN <<toQint16(left(r)), toQint16(top(r)), toQint16(right(r)), toQint16(bottom(r))>>
    ELSE <<toQint32(left(r)), toQint32(top(r)), toQint32(right(r)), toQint32(bottom(r))>>

\* operator>>(QDataStream &, QBox &)
streamIn(ver, s, r) ==
    IF ver = Qt_1_0
    THEN setCoords(r, toQint16(s[1]), toQint16(s[2]), toQint16(s[3]), toQint16(s[4]))
    ELSE setCoords(r, toQint32(s[1]), toQint32(s[2]), toQint32(s[3]), toQint32(s[4]))

(***************************************************************************)
(* The QBox state machine.  box is the object; the other variables record  *)
(* the last call: its name, its arguments and what it returned.            *)
(***************************************************************************)
NoPoint   == QPoint(0, 0)
NoMargins == QMargins(0, 0, 0, 0)

Queries == {"right", "bottom", "contains", "intersects", "span", "operator+",
            "operator+MR", "operator-", "marginsAdded", "marginsRemoved"}

\* The record of a call: every register is rewritten by every call.
Call(name, i, p1, p2, o, m, rb, ri, rx) ==
    /\ op' = name
    /\ ival' = i
    /\ pt1' = p1
    /\ pt2' = p2
    /\ other' = o
    /\ margins' = m
    /\ retBool' = rb
    /\ retInt' = ri
    /\ retBox' = rx

\* A call is made on a box that no call is in progress on: the box as
\* constructed, or as the previous call left it once that call has returned
\* (Return below).  operator>> follows the operator<< that filled the stream.
CanQuery == op = "init" /\ stream = <<>>

CanEdit == op = "init" /\ stream = <<>>

GuardIdle ==
    /\ gPhase' = gPhase /\ gInitial' = gInitial /\ m_level' = m_level
    /\ pSaves' = pSaves /\ pRestores' = pRestores
    /\ gSaves' = gSaves /\ gRestores' = gRestores

ModelIdle ==
    /\ m_rows' = m_rows /\ m_cols' = m_cols /\ isList' = isList
    /\ mOp' = mOp /\ mRowsBefore' = mRowsBefore /\ mColsBefore' = mColsBefore
    /\ mRet' = mRet

BoxIdle == UNCHANGED boxVars

Query(name, i, p1, p2, o, m, rb, ri, rx) ==
    /\ Call(name, i, p1, p2, o, m, rb, ri, rx)
    /\ prev' = box
    /\ UNCHANGED <<box, stream, version>>
    /\ GuardIdle /\ ModelIdle

Mutate(name, i, nb) ==
    /\ nb \in Boxes
    /\ Call(name, i, NoPoint, NoPoint, QBoxDefault, NoMargins, FALSE, 0, QBoxDefault)
    /\ prev' = box
    /\ box' = nb
    /\ UNCHANGED <<stream, version>>
    /\ GuardIdle /\ ModelIdle

Edit(name, i, p1, p2, o, m, nb) ==
    /\ nb \in Boxes
    /\ Call(name, i, p1, p2, o, m, FALSE, 0, QBoxDefault)
    /\ prev' = box
    /\ box' = nb
    /\ UNCHANGED <<stream, version>>
    /\ GuardIdle /\ ModelIdle

\* a call with one int argument
EditInt(name, i, nb) == Edit(name, i, NoPoint, NoPoint, QBoxDefault, NoMargins, nb)

\* a call with one QPoint argument, or two ints held as a point
EditPoint(name, p, nb) == Edit(name, 0, p, NoPoint, QBoxDefault, NoMargins, nb)

Right ==
    /\ CanQuery
    /\ Query("right", 0, NoPoint, NoPoint, QBoxDefault, NoMargins, FALSE, right(box),
             QBoxDefault)

Bottom ==
    /\ CanQuery
    /\ Query("bottom", 0, NoPoint, NoPoint, QBoxDefault, NoMargins, FALSE, bottom(box),
             QBoxDefault)

\* The setters are called with positions that keep the box within the model.
SetLeft ==
    /\ CanEdit
    /\ \E pos \in Coords : Mutate("setLeft", pos, setLeft(box, pos))

SetTop ==
    /\ CanEdit
    /\ \E pos \in Coords : Mutate("setTop", pos, setTop(box, pos))

SetX ==
    /\ CanEdit
    /\ \E ax \in Coords : Mutate("setX", ax, setX(box, ax))

SetY ==
    /\ CanEdit
    /\ \E ay \in Coords : Mutate("setY", ay, setY(box, ay))

SetRight ==
    /\ CanEdit
    /\ \E pos \in Reach : EditInt("setRight", pos, setRight(box, pos))

SetBottom ==
    /\ CanEdit
    /\ \E pos \in Reach : EditInt("setBottom", pos, setBottom(box, pos))

SetTopLeft ==
    /\ CanEdit
    /\ \E p \in Points : EditPoint("setTopLeft", p, setTopLeft(box, p))

SetBottomRight ==
    /\ CanEdit
    /\ \E p \in Points : EditPoint("setBottomRight", p, setBottomRight(box, p))

SetTopRight ==
    /\ CanEdit
    /\ \E p \in Points : EditPoint("setTopRight", p, setTopRight(box, p))

SetBottomLeft ==
    /\ CanEdit
    /\ \E p \in Points : EditPoint("setBottomLeft", p, setBottomLeft(box, p))

MoveLeft ==
    /\ CanEdit
    /\ \E pos \in Coords : EditInt("moveLeft", pos, moveLeft(box, pos))

MoveTop ==
    /\ CanEdit
    /\ \E pos \in Coords : EditInt("moveTop", pos, moveTop(box, pos))

MoveRight ==
    /\ CanEdit
    /\ \E pos \in Reach : EditInt("moveRight", pos, moveRight(box, pos))

MoveBottom ==
    /\ CanEdit
    /\ \E pos \in Reach : EditInt("moveBottom", pos, moveBottom(box, pos))

MoveTopLeft ==
    /\ CanEdit
    /\ \E p \in Points : EditPoint("moveTopLeft", p, moveTopLeft(box, p))

MoveBottomRight ==
    /\ CanEdit
    /\ \E p \in Points : EditPoint("moveBottomRight", p, moveBottomRight(box, p))

MoveTopRight ==
    /\ CanEdit
    /\ \E p \in Points : EditPoint("moveTopRight", p, moveTopRight(box, p))

MoveBottomLeft ==
    /\ CanEdit
    /\ \E p \in Points : EditPoint("moveBottomLeft", p, moveBottomLeft(box, p))

MoveCenter ==
    /\ CanEdit
    /\ \E p \in Points : EditPoint("moveCenter", p, moveCenter(box, p))

\* translate(dx, dy): pt1 holds (dx, dy)
TranslateXY ==
    /\ CanEdit
    /\ \E d \in Points : EditPoint("translate(int,int)", d, translateXY(box, d.x, d.y))

TranslateP ==
    /\ CanEdit
    /\ \E p \in Points : EditPoint("translate(QPoint)", p, translateP(box, p))

\* moveTo(x, y): pt1 holds (x, y)
MoveToXY ==
    /\ CanEdit
    /\ \E a \in SpanPoints : EditPoint("moveTo(int,int)", a, moveToXY(box, a.x, a.y))

MoveToP ==
    /\ CanEdit
    /\ \E p \in SpanPoints : EditPoint("moveTo(QPoint)", p, moveToP(box, p))

\* setRect(x, y, w, h): other holds the four arguments
SetRect ==
    /\ CanEdit
    /\ \E a \in Operands :
           Edit("setRect", 0, NoPoint, NoPoint, a, NoMargins,
                setRect(box, a.xp, a.yp, a.w, a.h))

\* setCoords(x1, y1, x2, y2): pt1 holds (x1, y1), pt2 holds (x2, y2)
SetCoords ==
    /\ CanEdit
    /\ \E p1 \in SpanPoints, p2 \in Points :
           Edit("setCoords", 0, p1, p2, QBoxDefault, NoMargins,
                setCoords(box, p1.x, p1.y, p2.x, p2.y))

\* adjust(dx1, dy1, dx2, dy2): pt1 holds (dx1, dy1), pt2 holds (dx2, dy2)
Adjust ==
    /\ CanEdit
    /\ \E d1 \in SpanPoints, d2 \in SpanPoints :
           Edit("adjust", 0, d1, d2, QBoxDefault, NoMargins,
                adjust(box, d1.x, d1.y, d2.x, d2.y))

SetWidth ==
    /\ CanEdit
    /\ \E aw \in Sizes : EditInt("setWidth", aw, setWidth(box, aw))

SetHeight ==
    /\ CanEdit
    /\ \E ah \in Sizes : EditInt("setHeight", ah, setHeight(box, ah))

\* setSize(s): pt1 holds (s.width(), s.height())
SetSize ==
    /\ CanEdit
    /\ \E sw \in Sizes, sh \in Sizes :
           EditPoint("setSize", QPoint(sw, sh), setSize(box, QSize(sw, sh)))

OperatorOrEq ==
    /\ CanEdit
    /\ \E r \in Operands :
           Edit("operator|=", 0, NoPoint, NoPoint, r, NoMargins, operatorOrEq(box, r))

OperatorAndEq ==
    /\ CanEdit
    /\ \E r \in Operands :
           Edit("operator&=", 0, NoPoint, NoPoint, r, NoMargins, operatorAndEq(box, r))

OperatorPlusEq ==
    /\ CanEdit
    /\ \E m \in MarginsSet :
           Edit("operator+=", 0, NoPoint, NoPoint, QBoxDefault, m, operatorPlusEq(box, m))

OperatorMinusEq ==
    /\ CanEdit
    /\ \E m \in MarginsSet :
           Edit("operator-=", 0, NoPoint, NoPoint, QBoxDefault, m, operatorMinusEq(box, m))

Contains ==
    /\ CanQuery
    /\ \E p \in Points :
           Query("contains", 0, p, NoPoint, QBoxDefault, NoMargins, contains(box, p), 0,
                 QBoxDefault)

Intersects ==
    /\ CanQuery
    /\ \E r \in Boxes :
           Query("intersects", 0, NoPoint, NoPoint, r, NoMargins, intersects(box, r), 0,
                 QBoxDefault)

\* span() is static: it is called without an object, here beside QBox()
Span ==
    /\ CanQuery
    /\ box = QBoxDefault
    /\ \E p1 \in SpanPoints, p2 \in SpanPoints :
           Query("span", 0, p1, p2, QBoxDefault, NoMargins, FALSE, 0, span(p1, p2))

OperatorPlus ==
    /\ CanQuery
    /\ \E m \in MarginsSet :
           Query("operator+", 0, NoPoint, NoPoint, QBoxDefault, m, FALSE, 0,
                 operatorPlus(box, m))

OperatorPlusMR ==
    /\ CanQuery
    /\ \E m \in MarginsSet :
           Query("operator+MR", 0, NoPoint, NoPoint, QBoxDefault, m, FALSE, 0,
                 operatorPlusMR(m, box))

OperatorMinus ==
    /\ CanQuery
    /\ \E m \in MarginsSet :
           Query("operator-", 0, NoPoint, NoPoint, QBoxDefault, m, FALSE, 0,
                 operatorMinus(box, m))

MarginsAdded ==
    /\ CanQuery
    /\ \E m \in MarginsSet :
           Query("marginsAdded", 0, NoPoint, NoPoint, QBoxDefault, m, FALSE, 0,
                 marginsAdded(box, m))

MarginsRemoved ==
    /\ CanQuery
    /\ \E m \in MarginsSet :
           Query("marginsRemoved", 0, NoPoint, NoPoint, QBoxDefault, m, FALSE, 0,
                 marginsRemoved(box, m))

\* s << r on an empty stream of version ver
StreamWrite ==
    /\ CanEdit
    /\ \E ver \in Versions :
        /\ Call("operator<<", 0, NoPoint, NoPoint, QBoxDefault, NoMargins, FALSE, 0,
                QBoxDefault)
        /\ version' = ver
        /\ stream' = streamOut(ver, box)
        /\ prev' = box
        /\ UNCHANGED box
        /\ GuardIdle /\ ModelIdle

\* s >> r on the stream just written; the stream is then dropped, and ival
\* keeps the version it had
StreamRead ==
    /\ stream # <<>>
    /\ Call("operator>>", version, NoPoint, NoPoint, QBoxDefault, NoMargins, FALSE, 0,
            QBoxDefault)
    /\ box' = streamIn(version, stream, box)
    /\ box' \in Boxes
    /\ prev' = box
    /\ stream' = <<>>
    /\ version' = Qt_1_0
    /\ GuardIdle /\ ModelIdle

\* The call has returned and its caller goes on to the next statement: the box
\* stays as the call left it and the record of the call is dropped, so that
\* any sequence of calls is a behaviour.
Return ==
    /\ op # "init"
    /\ stream = <<>>
    /\ Call("init", 0, NoPoint, NoPoint, QBoxDefault, NoMargins, FALSE, 0, QBoxDefault)
    /\ prev' = box
    /\ UNCHANGED <<box, stream, version>>
    /\ GuardIdle /\ ModelIdle

(***************************************************************************)
(* QPainterStateGuard (qpainterstateguard.h).  A guard is the record of    *)
(* its m_level and of the save() and restore() calls its painter received. *)
(***************************************************************************)
MaxSaves == 10      \* QPainter::save() calls in one behaviour

InitialStates == {"Save", "NoSave"}

\* void save(): m_painter->save(); ++m_level;
guardSave(g) == [g EXCEPT !.saves = g.saves + 1, !.level = g.level + 1]

\* void restore(): --m_level; m_painter->restore();
guardRestore(g) == [g EXCEPT !.level = g.level - 1, !.restores = g.restores + 1]

\* explicit QPainterStateGuard(QPainter *painter, InitialState state = Save)
guardCtor(g, state) ==
    LET fresh == [g EXCEPT !.level = 0]
    IN  IF state = "Save" THEN guardSave(fresh) ELSE fresh

RECURSIVE guardDtorLeavesOne(_)
guardDtorLeavesOne(g) ==
    IF g.level > 1 THEN guardDtorLeavesOne(guardRestore(g)) ELSE g

\* ~QPainterStateGuard(): while (m_level > 0) restore();
RECURSIVE guardDtor(_)
guardDtor(g) ==
    IF g.level > 0 THEN guardDtor(guardRestore(g)) ELSE g

Guard == [level |-> m_level, saves |-> pSaves, restores |-> pRestores]

SetGuard(g) ==
    /\ m_level' = g.level
    /\ pSaves' = g.saves
    /\ pRestores' = g.restores

GConstruct ==
    /\ gPhase = "none"
    /\ \E state \in InitialStates :
          /\ gInitial' = state
          /\ SetGuard(guardCtor(Guard, state))
    /\ gPhase' = "alive"
    /\ UNCHANGED <<gSaves, gRestores>>
    /\ BoxIdle /\ ModelIdle

GSave ==
    /\ gPhase = "alive"
    /\ pSaves < MaxSaves
    /\ SetGuard(guardSave(Guard))
    /\ gSaves' = gSaves + 1
    /\ UNCHANGED <<gPhase, gInitial, gRestores>>
    /\ BoxIdle /\ ModelIdle

\* restore() is called only on a guard that holds a save (its Q_ASSERT)
GRestore ==
    /\ gPhase = "alive"
    /\ m_level > 0
    /\ SetGuard(guardRestore(Guard))
    /\ gRestores' = gRestores + 1
    /\ UNCHANGED <<gPhase, gInitial, gSaves>>
    /\ BoxIdle /\ ModelIdle

GDestroy ==
    /\ gPhase = "alive"
    /\ SetGuard(guardDtor(Guard))
    /\ gPhase' = "destroyed"
    /\ UNCHANGED <<gInitial, gSaves, gRestores>>
    /\ BoxIdle /\ ModelIdle

(***************************************************************************)
(* The Java test model behind the native proxy (tst_androiditemmodel.cpp). *)
(***************************************************************************)
MaxRows == 33       \* rows addRow may build up
MaxCols == 3        \* columns addCol may build up

FetchLimit == 30
FetchBatch == 10

\* QAbstractItemModel::rowCount() / columnCount() of the proxy
rowCount(rows) == rows
columnCount(list, cols) == IF list THEN 1 ELSE cols

canFetchMore(rows) == rows < FetchLimit

fetchMoreWholeBatch(rows) == rows + FetchBatch

fetchMore(rows) == rows + qMin(FetchBatch, FetchLimit - rows)

ModelCall(name, rows, cols, ret) ==
    /\ mOp' = name
    /\ mRowsBefore' = rowCount(m_rows)
    /\ mColsBefore' = columnCount(isList, m_cols)
    /\ m_rows' = rows
    /\ m_cols' = cols
    /\ mRet' = ret
    /\ UNCHANGED isList
    /\ BoxIdle /\ GuardIdle

AddRow ==
    /\ m_rows < MaxRows
    /\ ModelCall("addRow", m_rows + 1, m_cols, FALSE)

RemoveRow ==
    /\ m_rows > 0
    /\ ModelCall("removeRow", m_rows - 1, m_cols, FALSE)

AddCol ==
    /\ ~isList
    /\ m_cols < MaxCols
    /\ ModelCall("addCol", m_rows, m_cols + 1, FALSE)

RemoveCol ==
    /\ ~isList
    /\ m_cols > 0
    /\ ModelCall("removeCol", m_rows, m_cols - 1, FALSE)

Reset == ModelCall("reset", 0, 0, FALSE)

CanFetchMore == ModelCall("canFetchMore", m_rows, m_cols, canFetchMore(m_rows))

\* fetchMore() is called after canFetchMore() returned true, as the test calls it
FetchMore ==
    /\ canFetchMore(m_rows)
    /\ ModelCall("fetchMore", fetchMore(m_rows), m_cols, FALSE)

(***************************************************************************)
(* Initial states and specifications.                                      *)
(***************************************************************************)
GuardInit ==
    /\ gPhase = "none" /\ gInitial = "Save" /\ m_level = 0
    /\ pSaves = 0 /\ pRestores = 0 /\ gSaves = 0 /\ gRestores = 0

ModelInitOne ==
    /\ m_rows = 0 /\ m_cols = 0 /\ isList = FALSE
    /\ mOp = "init" /\ mRowsBefore = 0 /\ mColsBefore = columnCount(isList, 0)
    /\ mRet = FALSE

\* init(): a proxy over one of the two models of initTestCase_data, empty
ModelInit ==
    /\ m_rows = 0 /\ m_cols = 0 /\ isList \in BOOLEAN
    /\ mOp = "init" /\ mRowsBefore = 0 /\ mColsBefore = columnCount(isList, 0)
    /\ mRet = FALSE

BoxInitOne ==
    /\ box = QBoxDefault /\ prev = QBoxDefault /\ op = "init" /\ ival = 0
    /\ pt1 = NoPoint /\ pt2 = NoPoint /\ other = QBoxDefault /\ margins = NoMargins
    /\ retBool = FALSE /\ retInt = 0 /\ retBox = QBoxDefault
    /\ stream = <<>> /\ version = Qt_1_0

\* A box as any of the constructors can leave it.
Init ==
    /\ box \in Boxes /\ prev = box /\ op = "init" /\ ival = 0
    /\ pt1 = NoPoint /\ pt2 = NoPoint /\ other = QBoxDefault /\ margins = NoMargins
    /\ retBool = FALSE /\ retInt = 0 /\ retBox = QBoxDefault
    /\ stream = <<>> /\ version = Qt_1_0
    /\ GuardInit /\ ModelInitOne

Next ==
    \/ Right \/ Bottom
    \/ SetLeft \/ SetTop \/ SetX \/ SetY
    \/ SetRight \/ SetBottom
    \/ SetTopLeft \/ SetBottomRight \/ SetTopRight \/ SetBottomLeft
    \/ MoveLeft \/ MoveTop \/ MoveRight \/ MoveBottom
    \/ MoveTopLeft \/ MoveBottomRight \/ MoveTopRight \/ MoveBottomLeft
    \/ MoveCenter \/ TranslateXY \/ TranslateP \/ MoveToXY \/ MoveToP
    \/ SetRect \/ SetCoords \/ Adjust \/ SetWidth \/ SetHeight \/ SetSize
    \/ OperatorOrEq \/ OperatorAndEq \/ OperatorPlusEq \/ OperatorMinusEq
    \/ Contains \/ Intersects \/ Span
    \/ OperatorPlus \/ OperatorPlusMR \/ OperatorMinus
    \/ MarginsAdded \/ MarginsRemoved
    \/ StreamWrite \/ StreamRead
    \/ Return

Spec == Init /\ [][Next]_vars

InitGuard == BoxInitOne /\ GuardInit /\ ModelInitOne

NextGuard == GConstruct \/ GSave \/ GRestore \/ GDestroy

SpecGuard == InitGuard /\ [][NextGuard]_vars

InitModel == BoxInitOne /\ GuardInit /\ ModelInit

NextModel ==
    \/ AddRow \/ RemoveRow \/ AddCol \/ RemoveCol \/ Reset
    \/ CanFetchMore \/ FetchMore

SpecModel == InitModel /\ [][NextModel]_vars

(***************************************************************************)
(* Properties.                                                             *)
(***************************************************************************)

\* C1: for every QBox r, r.right() == r.x() + r.width() and
\* r.bottom() == r.y() + r.height().
C1_FarEdges ==
    /\ op = "right" => retInt = x(box) + width(box)
    /\ op = "bottom" => retInt = y(box) + height(box)

\* C2: setX(x) is equivalent to setLeft(x): it sets the left edge to x and never
\* changes the right edge x() + width(); likewise setY(y) is equivalent to
\* setTop(y) and never changes the bottom edge y() + height().
C2_SetXYKeepFarEdge ==
    /\ op = "setX" =>
          /\ operatorEq(box, setLeft(prev, ival))
          /\ x(box) = ival
          /\ x(box) + width(box) = x(prev) + width(prev)
    /\ op = "setY" =>
          /\ operatorEq(box, setTop(prev, ival))
          /\ y(box) = ival
          /\ y(box) + height(box) = y(prev) + height(prev)

\* C3: an empty rectangle (width() <= 0 or height() <= 0) contains no point.
C3_EmptyContainsNothing ==
    (op = "contains" /\ isEmpty(box)) => ~retBool

\* C4: a.intersects(b) is true exactly when some integer point is contained in
\* both a and b.
C4_IntersectsIffCommonPoint ==
    op = "intersects" =>
        (retBool <=> \E p \in Points : contains(box, p) /\ contains(other, p))

\* C5: span(p1, p2) has non-negative width and height, contains p1 and p2, and
\* contains every point q with min(p1, p2) <= q <= max(p1, p2) componentwise.
C5_SpanIncludesBoth ==
    op = "span" =>
        /\ width(retBox) >= 0
        /\ height(retBox) >= 0
        /\ contains(retBox, pt1)
        /\ contains(retBox, pt2)
        /\ \A q \in Points :
              (/\ qMin(pt1.x, pt2.x) <= q.x /\ q.x <= qMax(pt1.x, pt2.x)
               /\ qMin(pt1.y, pt2.y) <= q.y /\ q.y <= qMax(pt1.y, pt2.y))
              => contains(retBox, q)

\* r grown by m, as the claim spells it out
Grown(r, m) ==
    QBox(r.xp - m.left, r.yp - m.top, r.w + m.left + m.right, r.h + m.top + m.bottom)

\* C6: operator+(r, m), operator+(m, r) and r.marginsAdded(m) are equal, namely r
\* grown by m (left - m.left, top - m.top, width + m.left + m.right,
\* height + m.top + m.bottom), and operator-(r, m) equals r.marginsRemoved(m).
C6_MarginSpellingsAgree ==
    /\ op \in {"operator+", "operator+MR", "marginsAdded"} =>
          operatorEq(retBox, Grown(box, margins))
    /\ op = "operator-" => operatorEq(retBox, marginsRemoved(box, margins))

\* C7: with a QDataStream version other than 1, writing a QBox with operator<<
\* and reading it back with operator>> yields a QBox equal to the one written.
C7_StreamRoundTrip ==
    (op = "operator>>" /\ ival # Qt_1_0) => operatorEq(box, prev)

\* The save the constructor contributes.
CtorSaves == IF gInitial = "Save" THEN 1 ELSE 0

\* C8: while the guard lives its level is never negative and equals the saves
\* so far (the constructor's included) minus the restores so far; once it is
\* destroyed the painter has received exactly one restore() per save(), the
\* constructor contributing one save unless constructed with NoSave.
C8_GuardBalanced ==
    /\ gPhase = "alive" =>
          /\ m_level >= 0
          /\ m_level = CtorSaves + gSaves - gRestores
          /\ pSaves = CtorSaves + gSaves
          /\ pRestores = gRestores
    /\ gPhase = "destroyed" =>
          /\ pSaves = CtorSaves + gSaves
          /\ pRestores = pSaves
          /\ pRestores - gRestores = CtorSaves + gSaves - gRestores

\* A guard destroyed while it still held more than one save, after at least one
\* explicit restore.
C8_Witness ==
    /\ gPhase = "destroyed"
    /\ gRestores >= 1
    /\ pRestores - gRestores >= 2

\* C9: for a valid QBox r, r.contains(p) is true exactly when
\* x() <= p.x < x() + width() and y() <= p.y < y() + height().
C9_ValidContains ==
    (op = "contains" /\ isValid(box)) =>
        (retBool <=> (/\ x(box) <= pt1.x /\ pt1.x < x(box) + width(box)
                      /\ y(box) <= pt1.y /\ pt1.y < y(box) + height(box)))

\* contains() asked about a point on the right edge of a valid box, in its rows.
C9_Witness ==
    /\ op = "contains"
    /\ isValid(box)
    /\ pt1.x = x(box) + width(box)
    /\ pt1.y = y(box)
    /\ ~retBool

\* C10: canFetchMore(root) is true exactly while the model has fewer than 30
\* rows; each fetchMore(root) adds min(10, 30 - rowCount) rows and never takes
\* rowCount() above 30.
C10_FetchMore ==
    /\ mOp = "canFetchMore" => (mRet <=> rowCount(m_rows) < 30)
    /\ mOp = "fetchMore" =>
          /\ rowCount(m_rows) = mRowsBefore + qMin(10, 30 - mRowsBefore)
          /\ rowCount(m_rows) <= 30

\* A fetch that had fewer than ten rows left to add, after rows were added by
\* addRow: it stops at 30.
C10_Witness ==
    /\ mOp = "fetchMore"
    /\ mRowsBefore > 20
    /\ mRowsBefore < 30
    /\ rowCount(m_rows) = 30

====
